---- MODULE Spec2Model ----
(***************************************************************************)
(* Verification model of the Zora Roulette spin endpoint                   *)
(* (src/app/api/spin/route.ts): the GET handler with its module-level      *)
(* recentlyShownCoins list, and the pure normalisers parseTimestamp and    *)
(* processHolders.                                                         *)
(*                                                                         *)
(* The specifications share the variables:                                 *)
(*   Spec           one GET request, one action per segment between awaits,*)
(*                  from several states of recentlyShownCoins              *)
(*   SpecConcurrent the same actions for overlapping GET requests          *)
(*   SpecTimestamp  parseTimestamp applied to bounded inputs               *)
(*   SpecHolders    processHolders applied to bounded payloads             *)
(*   SpecToNum      toNum applied to bounded values                        *)
(*   SpecRows       processSwaps, processHolders and processComments on    *)
(*                  payloads whose nodes vary in their aliased fields      *)
(***************************************************************************)
EXTENDS Integers, Sequences, FiniteSets, TLC

VARIABLES
  mode,                \* which environment the behaviour explores
  tzOffset,            \* server time zone: local time = UTC + tzOffset seconds
  tsIn, tsOut, tsOut2, tsFmt, tsPc,   \* SpecTimestamp
  hoIn, hoOut, hoPc,                  \* SpecHolders
  nuIn, nuOut, nuPc,                  \* SpecToNum
  rowIn, rowOut, rowPc,               \* SpecRows
  page,                \* page.tsx: the loading state of Home and its spins
  recentlyShownCoins,  \* route.ts:23, module-level list
  appended,            \* history: every address ever pushed, in push order
  req                  \* per request: the locals of GET and its position

numVars == <<nuIn, nuOut, nuPc>>

rowVars == <<rowIn, rowOut, rowPc>>

vars == <<mode, tzOffset, page, tsIn, tsOut, tsOut2, tsFmt, tsPc, hoIn, hoOut,
          hoPc, numVars, rowVars, recentlyShownCoins, appended, req>>

\* the value of page while no page is open
NoPage == [loading |-> FALSE, queue |-> <<>>, calls |-> <<>>, lastCall |-> "none"]

\* the value of req while no GET request exists
NoRequests == <<>>

(***************************************************************************)
(* JavaScript numbers.  The timestamps of the program exceed 2^31, so an   *)
(* integer n is kept as two limbs, n = hi * SecondsPerDay + lo with        *)
(* 0 <= lo < SecondsPerDay.  All arithmetic below is exact.                *)
(***************************************************************************)
SecondsPerDay == 24 * 60 * 60

Norm(h, l) == [hi |-> h + (l \div SecondsPerDay), lo |-> l % SecondsPerDay]

NumLt(a, b) == a.hi < b.hi \/ (a.hi = b.hi /\ a.lo < b.lo)

NumLe(a, b) == a = b \/ NumLt(a, b)

NumIsZero(a) == a.hi = 0 /\ a.lo = 0

\* n * 1000
Times1000(a) == Norm(a.hi * 1000, a.lo * 1000)

(***************************************************************************)
(* JavaScript values that reach parseTimestamp.                            *)
(*   [t |-> "undefined"], [t |-> "null"], [t |-> "NaN"]                    *)
(*   [t |-> "Infinity"], [t |-> "-Infinity"]                               *)
(*   [t |-> "number", n |-> limbs]                                         *)
(*   [t |-> "string", s |-> ""] , [t |-> "string", s |-> "garbage"]        *)
(*   [t |-> "iso", y, mo, d, sec]  the string "YYYY-MM-DDTHH:mm:ssZ"       *)
(*   [t |-> "object"]              any other type (boolean true, object)   *)
(***************************************************************************)
Undefined == [t |-> "undefined"]
Null == [t |-> "null"]
NaN == [t |-> "NaN"]
PosInfinity == [t |-> "Infinity"]
NegInfinity == [t |-> "-Infinity"]
NumV(h, l) == [t |-> "number", n |-> Norm(h, l)]
StrV(str) == [t |-> "string", s |-> str]
IsoV(y, mo, d, sec) == [t |-> "iso", y |-> y, mo |-> mo, d |-> d, sec |-> sec]
ObjectV == [t |-> "object"]

\* JavaScript truthiness: `!v` is true for undefined, null, 0, NaN and ""
Falsy(v) ==
  \/ v.t \in {"undefined", "null", "NaN"}
  \/ v.t = "number" /\ NumIsZero(v.n)
  \/ v.t = "string" /\ v.s = ""

(***************************************************************************)
(* Calendar arithmetic of Date (proleptic Gregorian, no leap seconds).     *)
(***************************************************************************)
\* days since 1970-01-01 of the civil date y-mo-d
DaysFromCivil(y, mo, d) ==
  LET yy  == IF mo <= 2 THEN y - 1 ELSE y
      era == yy \div 400
      yoe == yy - era * 400
      mp  == IF mo > 2 THEN mo - 3 ELSE mo + 9
      doy == (153 * mp + 2) \div 5 + d - 1
      doe == yoe * 365 + yoe \div 4 - yoe \div 100 + doy
  IN era * 146097 + doe - 719468

\* civil date of the day z (days since 1970-01-01)
CivilOfDay(z) ==
  LET zz  == z + 719468
      era == zz \div 146097
      doe == zz - era * 146097
      yoe == (doe - doe \div 1460 + doe \div 36524 - doe \div 146096) \div 365
      doy == doe - (365 * yoe + yoe \div 4 - yoe \div 100)
      mp  == (5 * doy + 2) \div 153
      mo  == IF mp < 10 THEN mp + 3 ELSE mp - 9
  IN [y  |-> yoe + era * 400 + (IF mo <= 2 THEN 1 ELSE 0),
      mo |-> mo,
      d  |-> doy - (153 * mp + 2) \div 5 + 1]

\* calendar year of the day z
YearOfDay(z) == CivilOfDay(z).y

\* Date.prototype.getUTCFullYear of the instant ms (limbs, milliseconds)
UTCFullYear(ms) == YearOfDay(ms.hi \div 1000)

\* Date.prototype.getFullYear: the year of the local wall clock
FullYear(ms, tz) == UTCFullYear(Norm(ms.hi, ms.lo + tz * 1000))

\* new Date(string).getTime() for "YYYY-MM-DDTHH:mm:ssZ", in milliseconds
DateParseIso(v) ==
  Norm(DaysFromCivil(v.y, v.mo, v.d) * 1000, v.sec * 1000)

(***************************************************************************)
(* parseTimestamp, route.ts:154-184                                        *)
(***************************************************************************)
\* 4102444800 = 2100-01-01T00:00:00Z in unix seconds = 47482 days
SecondsThreshold == Norm(47482, 0)

IsSecondsLe(n) == NumLe(n, SecondsThreshold)

\* route.ts:161  timestamp < 4102444800
IsSeconds(n) == NumLt(n, SecondsThreshold)

parseTimestamp(timestamp, tz) ==
  IF Falsy(timestamp) THEN Null
  ELSE IF timestamp.t = "number"
    THEN IF IsSeconds(timestamp.n)
           THEN [t |-> "number", n |-> Times1000(timestamp.n)]
           ELSE timestamp
  \* Infinity < 4102444800 is false; -Infinity * 1000 is -Infinity
  ELSE IF timestamp.t \in {"Infinity", "-Infinity"} THEN timestamp
  ELSE IF timestamp.t = "iso"
    THEN LET ts   == DateParseIso(timestamp)
             year == FullYear(ts, tz)
         IN IF year >= 2020 /\ year <= 2030
              THEN [t |-> "number", n |-> ts]
              ELSE Null
  \* an unparsable string gives an Invalid Date (year NaN, ts NaN);
  \* any other type falls through
  ELSE Null

(***************************************************************************)
(* formatBalanceRaw, route.ts:144-151                                      *)
(*                                                                         *)
(* Raw balances: Undefined, Null, StrV("") (BigInt("") is 0n),             *)
(* StrV("garbage") (BigInt throws a SyntaxError), and                      *)
(* [t |-> "intstr", v |-> n], the decimal string of the integer n (or the  *)
(* bigint or integer number n, which String() turns into that string).     *)
(* The result Number(formatUnits(n, decimals)) = n / 10^decimals is kept   *)
(* as the fixed-point pair [u |-> n, e |-> decimals]; a thrown error is    *)
(* caught and gives 0.                                                     *)
(***************************************************************************)
IntStr(n) == [t |-> "intstr", v |-> n]

Fixed(n, decimals) == [u |-> n, e |-> decimals]

formatBalanceRaw(raw, decimals) ==
  IF raw.t = "intstr" THEN Fixed(raw.v, decimals)
  ELSE IF raw = StrV("") THEN Fixed(0, decimals)
  ELSE Fixed(0, decimals)

\* a ?? b
Coalesce(a, b) == IF a.t \in {"undefined", "null"} THEN b ELSE a

\* a || b
OrElse(a, b) == IF Falsy(a) THEN b ELSE a

(***************************************************************************)
(* processHolders, route.ts:304-349                                        *)
(*                                                                         *)
(* A response is Null (the fetch was rejected) or                          *)
(* [hasEdges |-> BOOLEAN, edges |-> sequence]; hasEdges is FALSE when any  *)
(* of data, zora20Token, tokenBalances or edges is missing.  An edge is    *)
(* [hasNode |-> FALSE] or [hasNode |-> TRUE, node |-> HolderNode].         *)
(* A percentage is kept in tenths of a percent: 12.3 is 123.               *)
(***************************************************************************)
NoNode == [hasNode |-> FALSE]

Edge(n) == [hasNode |-> TRUE, node |-> n]

Resp(es) == [hasEdges |-> TRUE, edges |-> es]

RespNoEdges == [hasEdges |-> FALSE, edges |-> <<>>]

HolderNode(ph, oh, oa, ad, bal, fbal) ==
  [ownerProfileHandle |-> ph, ownerHandle |-> oh, ownerAddress |-> oa,
   address |-> ad, balance |-> bal, formattedBalance |-> fbal]

\* resp?.data?.zora20Token?.tokenBalances?.edges || []
EdgesOf(resp) ==
  IF resp = Null THEN <<>>
  ELSE IF resp.hasEdges THEN resp.edges ELSE <<>>

\* arr.slice(from, to) with 0-based from and exclusive to
Slice(arr, from, to) ==
  LET hi == IF to < Len(arr) THEN to ELSE Len(arr)
  IN IF from >= hi THEN <<>> ELSE SubSeq(arr, from + 1, hi)

\* route.ts:312-325, the map callback; NoNode stands for the null it returns
HolderOf(edge) ==
  IF ~edge.hasNode THEN NoNode
  ELSE LET node    == edge.node
           holder  == OrElse(node.ownerProfileHandle,
                        OrElse(node.ownerHandle,
                          OrElse(node.ownerAddress,
                            OrElse(node.address, StrV("unknown")))))
           balRaw  == Coalesce(node.balance,
                        Coalesce(node.formattedBalance, IntStr(0)))
       IN [hasNode |-> TRUE, holder |-> holder,
           balance |-> formatBalanceRaw(balRaw, 18)]

\* route.ts:312-326
AllHolders(edges) ==
  LET mapped == [i \in 1..Len(Slice(edges, 0, 11)) |-> HolderOf(edges[i])]
  IN SelectSeq(mapped, LAMBDA h : h.hasNode /\ h.balance.u > 0)

RECURSIVE SumUnits(_)
\* holders.reduce((sum, h) => sum + h.balance, 0)
SumUnits(hs) == IF hs = <<>> THEN 0 ELSE Head(hs).balance.u + SumUnits(Tail(hs))

PercentageNoScale(balance, total) ==
  IF total > 0 THEN [num |-> balance, den |-> total]
  ELSE [num |-> 0, den |-> 1]

\* route.ts:336  top10Total > 0 ? (h.balance / top10Total) * 100 : 0,
\* as the exact fraction num / den
Percentage(balance, total) ==
  IF total > 0 THEN [num |-> balance * 100, den |-> total]
  ELSE [num |-> 0, den |-> 1]

\* route.ts:339  Math.min(100, Math.max(0, percentage))
SafePercentage(p) ==
  IF p.num < 0 THEN [num |-> 0, den |-> 1]
  ELSE IF p.num > 100 * p.den THEN [num |-> 100, den |-> 1]
  ELSE p

ToFixed1Truncating(p) == (p.num * 10) \div p.den

\* route.ts:345  Number(p.toFixed(1)) for p >= 0, in tenths: the nearest
\* tenth, the larger one on a tie
ToFixed1(p) == (2 * p.num * 10 + p.den) \div (2 * p.den)

processHolders(resp) ==
  LET edges      == EdgesOf(resp)
      allHolders == AllHolders(edges)
      holders    == Slice(allHolders, 1, 11)
      top10Total == SumUnits(holders)
  IN IF Len(edges) = 0 THEN <<>>
     ELSE [idx \in 1..Len(holders) |->
             [rank        |-> idx,
              holder      |-> holders[idx].holder,
              balance     |-> holders[idx].balance,
              percentage  |-> ToFixed1(SafePercentage(
                                Percentage(holders[idx].balance.u, top10Total))),
              isTopHolder |-> (idx = 1)]]


(***************************************************************************)
(* formatTimestamp, route.ts:187-220                                       *)
(*                                                                         *)
(* The date string "DD Mon, YYYY" is [dash |-> FALSE, day, month, year]    *)
(* and the time string "H:MM AM" is [dash |-> FALSE, hours, minutes, ampm];*)
(* the placeholder is Dash.                                                *)
(***************************************************************************)
Dash == [dash |-> TRUE]

Months == <<"Jan", "Feb", "Mar", "Apr", "May", "Jun",
            "Jul", "Aug", "Sep", "Oct", "Nov", "Dec">>

\* seconds since UTC midnight of the instant ms
UTCSecondOfDay(ms) == ((ms.hi % 1000) * SecondsPerDay + ms.lo) \div 1000

formatTimestamp(ts, tz) ==
  IF Falsy(ts) THEN [date |-> Dash, time |-> Dash]
  \* new Date(Infinity) is an Invalid Date: getTime() is NaN
  ELSE IF ts.t # "number" THEN [date |-> Dash, time |-> Dash]
  ELSE LET year == FullYear(ts.n, tz)
       IN IF year < 2020 \/ year > 2030 THEN [date |-> Dash, time |-> Dash]
          ELSE LET civil == CivilOfDay(ts.n.hi \div 1000)
                   sod   == UTCSecondOfDay(ts.n)
                   h24   == sod \div 3600
                   h12   == h24 % 12
               IN [date |-> [dash |-> FALSE, day |-> civil.d,
                             month |-> Months[civil.mo], year |-> civil.y],
                   time |-> [dash |-> FALSE,
                             hours |-> IF h12 = 0 THEN 12 ELSE h12,
                             minutes |-> (sod \div 60) % 60,
                             ampm |-> IF h24 >= 12 THEN "PM" ELSE "AM"]]

(***************************************************************************)
(* shortAddress, route.ts:244-248                                          *)
(***************************************************************************)
shortAddress(addr) ==
  IF Falsy(addr) THEN StrV("-")
  ELSE IF Len(addr.s) <= 10 THEN addr
  ELSE StrV(SubSeq(addr.s, 1, 6) \o "..."
              \o SubSeq(addr.s, Len(addr.s) - 3, Len(addr.s)))

(***************************************************************************)
(* processSwaps, route.ts:251-301                                          *)
(***************************************************************************)
SwapResp(es, dec) == [hasEdges |-> TRUE, edges |-> es, decimals |-> dec]

SwapNode(ty, ca, am, bts, ts, cr, tm, sa, fa, ta, ua, tr, ac) ==
  [activityType |-> ty, coinAmount |-> ca, amount |-> am,
   blockTimestamp |-> bts, timestamp |-> ts, createdAt |-> cr, time |-> tm,
   senderAddress |-> sa, fromAddress |-> fa, toAddress |-> ta,
   userAddress |-> ua, trader |-> tr, account |-> ac]

\* (node.activityType || '').toUpperCase().includes('BUY') on the activity
\* types the payloads carry
IsBuy(activityType) ==
  /\ ~Falsy(activityType)
  /\ activityType.s \in {"BUY", "buy", "Buy", "REBUY"}

\* resp.data.zora20Token.decimals != null ? Number(decimals) : decimalsGuess
TokenDecimals(resp, decimalsGuess) ==
  IF resp.decimals \in {Undefined, Null} THEN decimalsGuess
  ELSE resp.decimals.v

\* the map callback of route.ts:259-299; NoNode stands for null
SwapRow(resp, edge, idx, tz) ==
  IF ~edge.hasNode THEN NoNode
  ELSE LET node == edge.node
           amtRaw == Coalesce(node.coinAmount,
                       Coalesce(node.amount, IntStr(0)))
           rawAddress ==
             Coalesce(node.senderAddress, Coalesce(node.fromAddress,
               Coalesce(node.toAddress, Coalesce(node.userAddress,
                 Coalesce(node.trader, node.account)))))
           rawTs == Coalesce(node.blockTimestamp, Coalesce(node.timestamp,
                      Coalesce(node.createdAt, node.time)))
           parsedTs == parseTimestamp(rawTs, tz)
           fmt == formatTimestamp(parsedTs, tz)
       IN [hasNode |-> TRUE,
           index |-> idx,
           side |-> IF IsBuy(node.activityType) THEN "BUY" ELSE "SELL",
           amount |-> formatBalanceRaw(amtRaw, TokenDecimals(resp, 18)),
           address |-> shortAddress(rawAddress),
           date |-> fmt.date,
           time |-> fmt.time,
           timestamp |-> parsedTs]

processSwaps(resp, tz) ==
  LET edges == Slice(EdgesOf(resp), 0, 10)
      rows  == [i \in 1..Len(edges) |-> SwapRow(resp, edges[i], i, tz)]
  IN SelectSeq(rows, LAMBDA r : r.hasNode)

(***************************************************************************)
(* processComments, route.ts:352-386                                       *)
(***************************************************************************)
CommentNode(ph, uh, ua, cm, tx, ts, cr, tm) ==
  [userProfileHandle |-> ph, userHandle |-> uh, userAddress |-> ua,
   comment |-> cm, text |-> tx, timestamp |-> ts, createdAt |-> cr,
   time |-> tm]

RECURSIVE CollapseSpaces(_)
\* str.replace(/\s+/g, ' ') on strings whose only white space is ' '
CollapseSpaces(str) ==
  IF Len(str) <= 1 THEN str
  ELSE IF SubSeq(str, 1, 1) = " " /\ SubSeq(str, 2, 2) = " "
         THEN CollapseSpaces(SubSeq(str, 2, Len(str)))
         ELSE SubSeq(str, 1, 1) \o CollapseSpaces(SubSeq(str, 2, Len(str)))

RECURSIVE Trim(_)
\* str.trim()
Trim(str) ==
  IF Len(str) = 0 THEN str
  ELSE IF SubSeq(str, 1, 1) = " " THEN Trim(SubSeq(str, 2, Len(str)))
  ELSE IF SubSeq(str, Len(str), Len(str)) = " "
         THEN Trim(SubSeq(str, 1, Len(str) - 1))
  ELSE str

\* the map callback of route.ts:358-384; NoNode stands for null
CommentRow(edge, tz) ==
  IF ~edge.hasNode THEN NoNode
  ELSE LET node == edge.node
           author == OrElse(node.userProfileHandle,
                       OrElse(node.userHandle,
                         OrElse(node.userAddress, StrV("anon"))))
           text == Trim(CollapseSpaces(
                     OrElse(node.comment, OrElse(node.text, StrV(""))).s))
           rawTs == Coalesce(node.timestamp,
                      Coalesce(node.createdAt, node.time))
           parsedTs == parseTimestamp(rawTs, tz)
       IN IF text = "" THEN NoNode
          ELSE [hasNode |-> TRUE, author |-> author, text |-> text,
                date |-> formatTimestamp(parsedTs, tz).date,
                timestamp |-> parsedTs]

processComments(resp, tz) ==
  LET edges == Slice(EdgesOf(resp), 0, 10)
      rows  == [i \in 1..Len(edges) |-> CommentRow(edges[i], tz)]
  IN SelectSeq(rows, LAMBDA r : r.hasNode)


(***************************************************************************)
(* GET, route.ts:388-534                                                   *)
(*                                                                         *)
(* A coin is identified by its address, a positive number; NoAddress is a  *)
(* missing or empty address.  The remaining coin fields pass through       *)
(* normalizeCoin unread by GET and are not kept.                           *)
(***************************************************************************)
MAX_RECENT_CACHE == 50

SampleSize == 60

FreshThreshold == 10

AttemptsCap == 20

NoAddress == 0

NoCoin == 0

Min(a, b) == IF a < b THEN a ELSE b

Max(a, b) == IF a > b THEN a ELSE b

\* route.ts:115-117
take(arr, n) == Slice(arr, 0, Max(0, Min(n, Len(arr))))

Swap(a, i, j) == [a EXCEPT ![i] = a[j], ![j] = a[i]]

\* one pass of the loop body of route.ts:108-111 at index i (0-based); the
\* k-th call of Math.random() returns tape[k] / RandomDenom, the tape
\* repeating, and the pass at index i is the (Len(a) - i)-th call
ShuffleStep(a, i, tape) ==
  LET k    == Len(a) - i
      draw == tape[((k - 1) % Len(tape)) + 1]
      j    == (draw.num * (i + 1)) \div draw.den
  IN Swap(a, i + 1, j + 1)

RECURSIVE ShuffleFrom(_, _, _, _)
\* the passes of the loop of route.ts:108-111 from index hi down to index lo:
\* those of the upper half of the range, then, on the array they leave (a
\* swap keeps its length), those of the lower half
ShuffleFrom(a, hi, lo, tape) ==
  IF hi < lo THEN a
  ELSE IF hi = lo THEN ShuffleStep(a, hi, tape)
  ELSE LET mid   == (hi + lo) \div 2
           upper == ShuffleFrom(a, hi, mid + 1, tape)
       IN IF Len(upper) = Len(a) THEN ShuffleFrom(upper, mid, lo, tape)
          ELSE upper

\* route.ts:106-113
shuffle(arr, tape) == ShuffleFrom(arr, Len(arr) - 1, 1, tape)

\* route.ts:403-407  take(shuffled, 60).map(e => e?.node)
\*                     .filter(n => Boolean(n && n.address)).map(normalizeCoin)
Candidates(rawEdges, tape) ==
  LET sampled == take(shuffle(rawEdges, tape), SampleSize)
      kept    == SelectSeq(sampled,
                   LAMBDA e : e.hasNode /\ e.address # NoAddress)
  IN [i \in 1..Len(kept) |-> kept[i].address]

Includes(list, x) == \E i \in 1..Len(list) : list[i] = x

FreshCandidatesAll(candidates, recent) == candidates

\* route.ts:410
FreshCandidates(candidates, recent) ==
  SelectSeq(candidates, LAMBDA c : ~Includes(recent, c))

FinalCandidatesUnfiltered(freshCandidates, candidates) == candidates

\* route.ts:411
FinalCandidates(freshCandidates, candidates) ==
  IF Len(freshCandidates) > FreshThreshold THEN freshCandidates
  ELSE candidates

MaxAttemptsUncapped(finalCandidates) == Len(finalCandidates)

\* route.ts:421
MaxAttempts(finalCandidates) == Min(AttemptsCap, Len(finalCandidates))

RandomIndexFromZero(draw, length, maxAttempts) ==
  (draw.num * length) \div draw.den

\* route.ts:459  Math.floor(Math.random() * (length - maxAttempts)) + maxAttempts
RandomIndex(draw, length, maxAttempts) ==
  (draw.num * (length - maxAttempts)) \div draw.den + maxAttempts

PushRecentNoEvict(recent, address) == Append(recent, address)

\* route.ts:492-495
PushRecent(recent, address) ==
  LET pushed == Append(recent, address)
  IN IF Len(pushed) > MAX_RECENT_CACHE THEN Tail(pushed) ELSE pushed

(***************************************************************************)
(* Settled promises of Promise.allSettled and thrown values                *)
(***************************************************************************)
Rejected == [status |-> "rejected"]

Fulfilled(v) == [status |-> "fulfilled", value |-> v]

\* a fulfilled payload whose edges field is a non-empty string instead of
\* an array: it has a length and a slice but no map
MalformedResp == [hasEdges |-> TRUE, malformed |-> TRUE]

\* x.status === "fulfilled" ? x.value : null
ValueOrNull(x) == IF x.status = "fulfilled" THEN x.value ELSE Null

\* route.ts:431-441  the length of
\*   x.status === "fulfilled" && x.value?...?.edges ? x.value....edges : []
ActivityLength(x) ==
  IF x.status # "fulfilled" THEN 0
  ELSE IF x.value = MalformedResp THEN 1
  ELSE Len(EdgesOf(x.value))

HasActivityAllFulfilled(sw, cm, ho) ==
  /\ sw.status = "fulfilled" /\ cm.status = "fulfilled"
  /\ ho.status = "fulfilled"
  /\ (ActivityLength(cm) > 0 \/ ActivityLength(sw) > 0
        \/ ActivityLength(ho) > 0)

HasActivityIgnoringHolders(sw, cm, ho) ==
  ActivityLength(cm) > 0 \/ ActivityLength(sw) > 0

\* route.ts:444
HasActivity(sw, cm, ho) ==
  ActivityLength(cm) > 0 \/ ActivityLength(sw) > 0 \/ ActivityLength(ho) > 0

\* processSwaps, processComments and processHolders call edges.slice(0, n)
\* .map(...): a TypeError on the malformed payload
ProcessThrows(resp) == resp = MalformedResp

ErrorOf(message) == [isError |-> TRUE, message |-> StrV(message)]

\* a rejection value that is not an Error instance
NonError == [isError |-> FALSE, message |-> Undefined]

(***************************************************************************)
(* Responses                                                               *)
(***************************************************************************)
NoResponse == [kind |-> "none"]

JsonOk(coin, details, stats) ==
  [kind |-> "json", ok |-> TRUE, status |-> 200, coin |-> coin,
   details |-> details, stats |-> stats]

JsonError(error) ==
  [kind |-> "json", ok |-> FALSE, status |-> 500, error |-> error]

CatchMessageOnly(error) == JsonError(error.message)

\* route.ts:527-533
Catch(error) ==
  JsonError(IF error.isError THEN error.message ELSE StrV("unknown error"))

CountSide(swaps, side) == Len(SelectSeq(swaps, LAMBDA r : r.side = side))

StatsBullishOnTie(swapsData, commentsData, holdersData, poolSize, freshCoins, cacheSize) ==
  LET buyCount  == CountSide(swapsData, "BUY")
      sellCount == CountSide(swapsData, "SELL")
  IN [totalActivity |-> Len(swapsData) + Len(commentsData) + Len(holdersData),
      buyCount  |-> buyCount,
      sellCount |-> sellCount,
      sentiment |-> IF buyCount >= sellCount THEN "bullish" ELSE "bearish",
      poolSize |-> poolSize,
      freshCoins |-> freshCoins,
      cacheSize |-> cacheSize]

\* route.ts:503-506 and 516-525 (the clock reading timestamp is left out)
Stats(swapsData, commentsData, holdersData, poolSize, freshCoins, cacheSize) ==
  LET buyCount  == CountSide(swapsData, "BUY")
      sellCount == CountSide(swapsData, "SELL")
  IN [totalActivity |-> Len(swapsData) + Len(commentsData) + Len(holdersData),
      buyCount  |-> buyCount,
      sellCount |-> sellCount,
      sentiment |-> IF buyCount > sellCount THEN "bullish"
                    ELSE IF buyCount < sellCount THEN "bearish"
                    ELSE "neutral",
      poolSize |-> poolSize,
      freshCoins |-> freshCoins,
      cacheSize |-> cacheSize]


(***************************************************************************)
(* SpecHolders: processHolders on bounded payloads                         *)
(***************************************************************************)
MaxHead == 3
MaxTail == 11

\* holder nodes that differ in the fields processHolders reads
HolderNodes ==
  { HolderNode(StrV("alice"), Undefined, StrV("0xa1"), Undefined, IntStr(v),
               Undefined) : v \in {0, 1, 2, 7} }
  \cup
  { HolderNode(Undefined, Undefined, Undefined, Undefined, Undefined, Undefined),
    HolderNode(StrV(""), Null, StrV("0xb2"), Undefined, StrV("garbage"),
               IntStr(5)),
    HolderNode(Undefined, StrV("bob"), Undefined, StrV("0xc3"), Null,
               IntStr(3)),
    HolderNode(Undefined, Undefined, StrV("0xd4"), Undefined, IntStr(0 - 4),
               Undefined),
    HolderNode(Undefined, Undefined, Undefined, StrV("0xe5"), StrV(""),
               IntStr(9)) }

HolderEdges == {NoNode} \cup { Edge(n) : n \in HolderNodes }

\* the edges that fill the tail of a long payload
TailEdges ==
  { Edge(HolderNode(Undefined, Undefined, StrV("0xf6"), Undefined, IntStr(v),
                    Undefined)) : v \in {1, 7} }

HeadsUpTo(n) == UNION { [1..k -> HolderEdges] : k \in 0..n }

\* every short edge list, followed by up to MaxTail equal edges
HolderEdgeLists ==
  { h \o [i \in 1..t |-> e] :
      h \in HeadsUpTo(MaxHead), t \in 0..MaxTail, e \in TailEdges }

HolderResponses ==
  {Null, RespNoEdges} \cup { Resp(es) : es \in HolderEdgeLists }

InitHolders ==
  /\ mode = "holders"
  /\ tzOffset = 0
  /\ tsIn = Null /\ tsOut = Null /\ tsOut2 = Null /\ tsFmt = Null /\ page = NoPage /\ tsPc = "off"
  /\ hoIn \in HolderResponses
  /\ hoOut = <<>> /\ hoPc = "input"
  /\ nuIn = Null /\ nuOut = Null /\ nuPc = "off"
  /\ rowIn = Null /\ rowOut = <<>> /\ rowPc = "off"
  /\ recentlyShownCoins = <<>> /\ appended = <<>>
  /\ req = NoRequests

\* GET passes the settled getCoinHolders response to processHolders
ProcessHolders ==
  /\ hoPc = "input"
  /\ hoOut' = processHolders(hoIn)
  /\ hoPc' = "done"
  /\ UNCHANGED <<mode, tzOffset, page, numVars, rowVars, tsFmt, tsIn, tsOut, tsOut2, tsPc, hoIn,
                 recentlyShownCoins, appended, req>>

NextHolders == ProcessHolders

SpecHolders == InitHolders /\ [][NextHolders]_vars

RECURSIVE SumOfBalances(_)
\* the sum of the balance fields of the rows returned
SumOfBalances(rows) ==
  IF rows = <<>> THEN 0 ELSE Head(rows).balance.u + SumOfBalances(Tail(rows))

RECURSIVE SumOfPercentages(_)
\* the sum of the percentage fields of the rows returned, in tenths
SumOfPercentages(rows) ==
  IF rows = <<>> THEN 0 ELSE Head(rows).percentage + SumOfPercentages(Tail(rows))

\* q is balance / total * 100 rounded to one decimal (q in tenths):
\* |balance * 1000 / total - q| <= 1/2
IsShareRoundedToTenth(q, balance, total) ==
  /\ 2 * balance * 1000 - total <= 2 * q * total
  /\ 2 * q * total <= 2 * balance * 1000 + total

\* C6: every returned row's percentage is its balance divided by the sum of
\* the balances of the returned rows, times 100, rounded to one decimal; it
\* lies in [0, 100]; and all rows show 0 only when that sum is not positive.
C6_ShareOfReturnedRows ==
  hoPc = "done" =>
    LET total == SumOfBalances(hoOut)
    IN /\ \A i \in 1..Len(hoOut) :
            /\ hoOut[i].percentage >= 0 /\ hoOut[i].percentage <= 1000
            /\ total > 0 =>
                 IsShareRoundedToTenth(hoOut[i].percentage,
                                       hoOut[i].balance.u, total)
       /\ (hoOut # <<>> /\ \A i \in 1..Len(hoOut) : hoOut[i].percentage = 0)
            => total <= 0

\* C6 witness: several rows were returned after a holder with a positive
\* balance was skipped, and a share needed rounding
C6_Witness ==
  /\ hoPc = "done"
  /\ Len(hoOut) >= 3
  /\ \E i \in 1..Len(hoOut) :
       (hoOut[i].balance.u * 1000) % SumOfBalances(hoOut) # 0

\* C7: for a non-empty result the percentages sum to 100 up to 0.05 per
\* row (in tenths: twice the distance from 1000 is at most the row count).
C7_PercentagesSumTo100 ==
  (hoPc = "done" /\ hoOut # <<>>) =>
    LET d == SumOfPercentages(hoOut) - 1000
    IN /\ 2 * d <= Len(hoOut)
       /\ 2 * (0 - d) <= Len(hoOut)
       /\ Len(hoOut) <= 10

\* C7 witness: ten rows were returned and their rounded percentages do not
\* sum to exactly 100
C7_Witness ==
  /\ hoPc = "done"
  /\ Len(hoOut) = 10
  /\ SumOfPercentages(hoOut) # 1000


(***************************************************************************)
(* SpecTimestamp: parseTimestamp on bounded inputs, then on its own output *)
(***************************************************************************)
TsSpread == 1

\* day numbers around which numeric inputs are drawn: the epoch, the day
\* holding 4102444.8 s, 2020-01-01, 2024-10-04, 2031-01-01 and 2100-01-01,
\* as seconds (hi = day) and as milliseconds (hi = day * 1000)
DayAnchors == {0, 47, 18262, 20000, 22280, 47482,
               18262000, 20000000, 22280000, 47482000}

LoMarks == {0, 1, 41644, 41645, SecondsPerDay - 1}

TzOffsets == {0 - 12 * 3600, 0, 14 * 3600}

TsNumbers ==
  { NumV(a + k, l) : a \in DayAnchors, k \in (0 - TsSpread)..TsSpread,
                     l \in LoMarks }

TsStrings ==
  { IsoV(y, md[1], md[2], sec) :
      y \in {2019, 2020, 2025, 2030, 2031},
      md \in {<<1, 1>>, <<6, 15>>, <<12, 31>>},
      sec \in {0, 12 * 3600, SecondsPerDay - 1} }

TsInputs ==
  TsNumbers \cup TsStrings
    \cup {Undefined, Null, NaN, PosInfinity, NegInfinity, ObjectV,
          StrV(""), StrV("garbage")}

InitTimestamp ==
  /\ mode = "timestamp"
  /\ tzOffset \in TzOffsets
  /\ tsIn \in TsInputs
  /\ tsOut = Null /\ tsOut2 = Null /\ tsFmt = Null /\ page = NoPage /\ tsPc = "input"
  /\ hoIn = <<>> /\ hoOut = <<>> /\ hoPc = "off"
  /\ nuIn = Null /\ nuOut = Null /\ nuPc = "off"
  /\ rowIn = Null /\ rowOut = <<>> /\ rowPc = "off"
  /\ recentlyShownCoins = <<>> /\ appended = <<>>
  /\ req = NoRequests

\* a caller passes tsIn to parseTimestamp
Parse ==
  /\ tsPc = "input"
  /\ tsOut' = parseTimestamp(tsIn, tzOffset)
  /\ tsPc' = "parsed"
  /\ UNCHANGED <<mode, tzOffset, page, numVars, rowVars, tsFmt, tsIn, tsOut2, hoIn, hoOut, hoPc,
                 recentlyShownCoins, appended, req>>

\* the value parseTimestamp returned is passed to it again
Reparse ==
  /\ tsPc = "parsed"
  /\ tsOut # Null
  /\ tsOut2' = parseTimestamp(tsOut, tzOffset)
  /\ tsPc' = "reparsed"
  /\ UNCHANGED <<mode, tzOffset, page, numVars, rowVars, tsFmt, tsIn, tsOut, hoIn, hoOut, hoPc,
                 recentlyShownCoins, appended, req>>

\* processSwaps and processComments pass the value parseTimestamp returned
\* to formatTimestamp (route.ts:288-289, 375-376)
Format ==
  /\ tsPc = "parsed"
  /\ tsFmt' = formatTimestamp(tsOut, tzOffset)
  /\ tsPc' = "formatted"
  /\ UNCHANGED <<mode, tzOffset, page, numVars, rowVars, tsIn, tsOut, tsOut2, hoIn,
                 hoOut, hoPc, recentlyShownCoins, appended, req>>

NextTimestamp == Parse \/ Reparse \/ Format

SpecTimestamp == InitTimestamp /\ [][NextTimestamp]_vars

YearWindow == 2020..2030

\* v is a millisecond value whose date, read in UTC or in the server's
\* local time, lies in a year of the window
DenotesYearInWindow(v, tz) ==
  /\ v.t = "number"
  /\ \/ UTCFullYear(v.n) \in YearWindow
     \/ FullYear(v.n, tz) \in YearWindow

\* C8: parseTimestamp returns null for every input whose instant lies in a
\* calendar year outside 2020..2030: every non-null result denotes a date
\* inside the window.
C8_NullOutsideWindow ==
  (tsPc = "parsed" /\ tsOut # Null) => DenotesYearInWindow(tsOut, tzOffset)

\* C9: for a numeric input the unit is decided by magnitude alone: a
\* non-zero number below 4102444800 comes back multiplied by 1000, a number
\* at or above 4102444800 comes back unchanged, and zero, null, undefined
\* and the empty string give null.
C9_UnitByMagnitude ==
  tsPc = "parsed" =>
    /\ (tsIn.t = "number" /\ ~NumIsZero(tsIn.n)
          /\ NumLt(tsIn.n, SecondsThreshold))
         => tsOut = [t |-> "number", n |-> Times1000(tsIn.n)]
    /\ (tsIn.t = "number" /\ ~NumLt(tsIn.n, SecondsThreshold))
         => tsOut = tsIn
    /\ (tsIn \in {Null, Undefined, StrV(""), NumV(0, 0)}) => tsOut = Null

\* C9 witness: a non-zero seconds value was scaled, i.e. parseTimestamp has
\* acted on a numeric input below the threshold
C9_Witness ==
  /\ tsPc = "parsed"
  /\ tsIn.t = "number" /\ ~NumIsZero(tsIn.n)
  /\ NumLt(tsIn.n, SecondsThreshold)
  /\ tsOut.t = "number" /\ tsOut.n # tsIn.n

\* C10: parseTimestamp is idempotent on its own output: parsing a non-null
\* result again returns that result.
C10_Idempotent == tsPc = "reparsed" => tsOut2 = tsOut

(***************************************************************************)
(* SpecRows: processSwaps, processHolders and processComments on payloads  *)
(* whose node varies in the fields that are read under several names       *)
(***************************************************************************)
\* what a field that is missing or null holds
AbsentValues == {Undefined, Null}

\* the values of a list of aliases: the first lead of them absent, the next
\* one holding its own value or a blank one (defined and non-null, but
\* falsy), the later ones holding their own values
AliasTuples(present, blank) ==
  UNION {
    { [i \in 1..Len(present) |->
         IF i <= lead THEN a ELSE IF i = lead + 1 THEN v ELSE present[i]] :
        a \in AbsentValues,
        v \in {present[Min(lead + 1, Len(present))], blank} } :
    lead \in 0..Len(present) }

SwapAmounts == AliasTuples(<<IntStr(5), IntStr(3)>>, StrV(""))

SwapAddresses ==
  AliasTuples(<<StrV("0x1234567890abcdef"), StrV("0xf2"), StrV("0xf3"),
                StrV("0xf4"), StrV("0xf5"), StrV("0xf6")>>, StrV(""))

SwapTimestamps ==
  AliasTuples(<<NumV(20000, 3600), IsoV(2025, 6, 15, 3600), NumV(20001, 0),
                IsoV(2026, 1, 1, 0)>>, NumV(0, 0))

HolderNames ==
  AliasTuples(<<StrV("alice"), StrV("bob"), StrV("0xa1"), StrV("0xc3")>>,
              StrV(""))

HolderBalances == AliasTuples(<<IntStr(7), IntStr(3)>>, StrV(""))

CommentAuthors ==
  AliasTuples(<<StrV("carol"), StrV("dave"), StrV("0xd00d")>>, StrV(""))

CommentTexts == AliasTuples(<<StrV(" gm   frens "), StrV("wagmi")>>, StrV(""))

CommentTimestamps ==
  AliasTuples(<<NumV(20000, 3600), IsoV(2025, 6, 15, 3600), NumV(20001, 0)>>,
              NumV(0, 0))

\* the first holder edge, which processHolders leaves out of its result
MarketMakerEdge ==
  Edge(HolderNode(Undefined, Undefined, StrV("0xf6"), Undefined, IntStr(9),
                  Undefined))

RowInputs ==
  { [fn |-> "swaps", amounts |-> am, addresses |-> ad, timestamps |-> ts] :
      am \in SwapAmounts, ad \in SwapAddresses, ts \in SwapTimestamps }
  \cup
  { [fn |-> "holders", names |-> nm, balances |-> bl] :
      nm \in HolderNames, bl \in HolderBalances }
  \cup
  { [fn |-> "comments", authors |-> au, texts |-> tx, timestamps |-> ts] :
      au \in CommentAuthors, tx \in CommentTexts, ts \in CommentTimestamps }

\* the getCoinSwaps response with the one swap node rowIn describes
SwapsResponseOf(in) ==
  SwapResp(<<Edge(SwapNode(StrV("BUY"), in.amounts[1], in.amounts[2],
                           in.timestamps[1], in.timestamps[2],
                           in.timestamps[3], in.timestamps[4],
                           in.addresses[1], in.addresses[2], in.addresses[3],
                           in.addresses[4], in.addresses[5],
                           in.addresses[6]))>>, Undefined)

\* the getCoinHolders response: the market maker, then the node of rowIn
HoldersResponseOf(in) ==
  Resp(<<MarketMakerEdge,
         Edge(HolderNode(in.names[1], in.names[2], in.names[3], in.names[4],
                         in.balances[1], in.balances[2]))>>)

\* the getCoinComments response with the one comment node rowIn describes
CommentsResponseOf(in) ==
  Resp(<<Edge(CommentNode(in.authors[1], in.authors[2], in.authors[3],
                          in.texts[1], in.texts[2], in.timestamps[1],
                          in.timestamps[2], in.timestamps[3]))>>)

InitRows ==
  /\ mode = "rows"
  /\ tzOffset = 0
  /\ tsIn = Null /\ tsOut = Null /\ tsOut2 = Null /\ tsFmt = Null /\ page = NoPage /\ tsPc = "off"
  /\ hoIn = <<>> /\ hoOut = <<>> /\ hoPc = "off"
  /\ nuIn = Null /\ nuOut = Null /\ nuPc = "off"
  /\ rowIn \in RowInputs
  /\ rowOut = <<>> /\ rowPc = "input"
  /\ recentlyShownCoins = <<>> /\ appended = <<>>
  /\ req = NoRequests

\* route.ts:448  GET passes the settled getCoinSwaps response to processSwaps
ApplyProcessSwaps ==
  /\ rowPc = "input" /\ rowIn.fn = "swaps"
  /\ rowOut' = processSwaps(SwapsResponseOf(rowIn), tzOffset)
  /\ rowPc' = "done"
  /\ UNCHANGED <<mode, tzOffset, page, tsIn, tsOut, tsOut2, tsFmt, tsPc, hoIn, hoOut,
                 hoPc, numVars, rowIn, recentlyShownCoins, appended, req>>

\* route.ts:450
ApplyProcessHolders ==
  /\ rowPc = "input" /\ rowIn.fn = "holders"
  /\ rowOut' = processHolders(HoldersResponseOf(rowIn))
  /\ rowPc' = "done"
  /\ UNCHANGED <<mode, tzOffset, page, tsIn, tsOut, tsOut2, tsFmt, tsPc, hoIn, hoOut,
                 hoPc, numVars, rowIn, recentlyShownCoins, appended, req>>

\* route.ts:449
ApplyProcessComments ==
  /\ rowPc = "input" /\ rowIn.fn = "comments"
  /\ rowOut' = processComments(CommentsResponseOf(rowIn), tzOffset)
  /\ rowPc' = "done"
  /\ UNCHANGED <<mode, tzOffset, page, tsIn, tsOut, tsOut2, tsFmt, tsPc, hoIn, hoOut,
                 hoPc, numVars, rowIn, recentlyShownCoins, appended, req>>

NextRows == ApplyProcessSwaps \/ ApplyProcessHolders \/ ApplyProcessComments

SpecRows == InitRows /\ [][NextRows]_vars

RECURSIVE FirstPresent(_, _)
\* the first value of the list that is neither undefined nor null, and
\* default when there is none
FirstPresent(aliases, default) ==
  IF aliases = <<>> THEN default
  ELSE IF Head(aliases) \notin AbsentValues THEN Head(aliases)
  ELSE FirstPresent(Tail(aliases), default)

\* the swap row shows the first present amount, trader address and timestamp
SwapAliasesFirstPresent ==
  /\ Len(rowOut) = 1
  /\ rowOut[1].amount =
       formatBalanceRaw(FirstPresent(rowIn.amounts, IntStr(0)), 18)
  /\ rowOut[1].address =
       shortAddress(FirstPresent(rowIn.addresses, Undefined))
  /\ rowOut[1].timestamp =
       parseTimestamp(FirstPresent(rowIn.timestamps, Undefined), tzOffset)

\* the holder row shows the first present name and balance; a node whose
\* balance is not positive gives no row
HolderAliasesFirstPresent ==
  LET name    == FirstPresent(rowIn.names, StrV("unknown"))
      balance == formatBalanceRaw(FirstPresent(rowIn.balances, IntStr(0)), 18)
  IN IF balance.u > 0
       THEN /\ Len(rowOut) = 1
            /\ rowOut[1].holder = name
            /\ rowOut[1].balance = balance
       ELSE rowOut = <<>>

\* the comment row shows the first present author, text and timestamp; a
\* node whose text is blank gives no row
CommentAliasesFirstPresent ==
  LET author == FirstPresent(rowIn.authors, StrV("anon"))
      text   == Trim(CollapseSpaces(FirstPresent(rowIn.texts, StrV("")).s))
  IN IF text # ""
       THEN /\ Len(rowOut) = 1
            /\ rowOut[1].author = author
            /\ rowOut[1].text = text
            /\ rowOut[1].timestamp =
                 parseTimestamp(FirstPresent(rowIn.timestamps, Undefined),
                                tzOffset)
       ELSE rowOut = <<>>

\* C11: for every field read under several names (swap amount, trader
\* address, swap timestamp, holder name, holder balance, comment author,
\* comment text, comment timestamp) the value used is that of the first
\* alias that is neither undefined nor null, and the default is used only
\* when every alias is undefined or null.
C11_FirstPresentAlias ==
  rowPc = "done" =>
    /\ rowIn.fn = "swaps" => SwapAliasesFirstPresent
    /\ rowIn.fn = "holders" => HolderAliasesFirstPresent
    /\ rowIn.fn = "comments" => CommentAliasesFirstPresent

(***************************************************************************)
(* toNum, route.ts:119-127, and its earlier version,                       *)
(* src/unnamed/part_001:37-45                                              *)
(***************************************************************************)
BigIntV == [t |-> "bigint"]

BoolV(b) == [t |-> "boolean", b |-> b]

RECURSIVE RemoveChar(_, _)
\* str.replace(/c/g, "") for the one-character pattern c
RemoveChar(str, c) ==
  IF Len(str) = 0 THEN str
  ELSE IF SubSeq(str, 1, 1) = c THEN RemoveChar(SubSeq(str, 2, Len(str)), c)
  ELSE SubSeq(str, 1, 1) \o RemoveChar(SubSeq(str, 2, Len(str)), c)

DecimalDigits == <<"0", "1", "2", "3", "4", "5", "6", "7", "8", "9">>

IsDigit(c) == \E k \in 1..10 : DecimalDigits[k] = c

DigitOf(c) == (CHOOSE k \in 1..10 : DecimalDigits[k] = c) - 1

IsDigits(str) == Len(str) > 0 /\ \A i \in 1..Len(str) : IsDigit(SubSeq(str, i, i))

RECURSIVE DigitsValue(_)
\* the number a string of decimal digits denotes
DigitsValue(str) ==
  IF Len(str) = 0 THEN 0
  ELSE 10 * DigitsValue(SubSeq(str, 1, Len(str) - 1))
         + DigitOf(SubSeq(str, Len(str), Len(str)))

\* Number(str) on strings made of digits, ',', '_', ' ' and letters: white
\* space around the literal is dropped, the empty literal is 0, a run of
\* digits is its value, Infinity is a literal, and anything else (a comma or
\* an underscore inside, letters) is NaN
StringToNumber(str) ==
  LET lit == Trim(str)
  IN IF lit = "" THEN NumV(0, 0)
     ELSE IF lit = "Infinity" THEN PosInfinity
     ELSE IF lit = "-Infinity" THEN NegInfinity
     ELSE IF IsDigits(lit) THEN NumV(0, DigitsValue(lit))
     ELSE NaN

\* Number.isFinite(n)
IsFinite(n) == n.t = "number"

\* typeof v === "number"
IsNumberType(v) == v.t \in {"number", "NaN", "Infinity", "-Infinity"}

\* route.ts:119-127
toNum(v) ==
  IF v.t \in {"undefined", "null"} THEN Undefined
  ELSE IF IsNumberType(v) THEN v
  ELSE IF v.t = "string"
    THEN LET n == StringToNumber(RemoveChar(v.s, "_"))
         IN IF IsFinite(n) THEN n ELSE Undefined
  ELSE Undefined

\* src/unnamed/part_001:37-45
toNumEarlier(v) ==
  IF v.t \in {"undefined", "null"} THEN Undefined
  ELSE IF IsNumberType(v) THEN v
  ELSE IF v.t = "string"
    THEN LET n == StringToNumber(RemoveChar(v.s, ","))
         IN IF IsFinite(n) THEN n ELSE Undefined
  ELSE Undefined

(***************************************************************************)
(* SpecToNum: toNum on bounded values                                      *)
(***************************************************************************)
MaxStrLen == 3

ToNumChars == {"1", "2", ",", "_", " "}

RECURSIVE StringsUpTo(_)
StringsUpTo(n) ==
  IF n = 0 THEN {""}
  ELSE LET shorter == StringsUpTo(n - 1)
       IN shorter \cup { s \o c : s \in shorter, c \in ToNumChars }

ToNumStrings ==
  StringsUpTo(MaxStrLen)
    \cup {"1,234", "1_234", "1234", "12,345_678", "Infinity", "-Infinity",
          "NaN", "abc", "0"}

\* what the fields of a coin that normalizeCoin converts may hold
ToNumInputs ==
  { StrV(s) : s \in ToNumStrings }
    \cup { NumV(0, k) : k \in 0..2 }
    \cup {Undefined, Null, NaN, PosInfinity, NegInfinity, ObjectV, BigIntV,
          BoolV(TRUE), BoolV(FALSE)}

InitToNum ==
  /\ mode = "toNum"
  /\ tzOffset = 0
  /\ tsIn = Null /\ tsOut = Null /\ tsOut2 = Null /\ tsFmt = Null /\ page = NoPage /\ tsPc = "off"
  /\ hoIn = <<>> /\ hoOut = <<>> /\ hoPc = "off"
  /\ nuIn \in ToNumInputs
  /\ nuOut = Null /\ nuPc = "input"
  /\ rowIn = Null /\ rowOut = <<>> /\ rowPc = "off"
  /\ recentlyShownCoins = <<>> /\ appended = <<>>
  /\ req = NoRequests

\* route.ts:134-138  normalizeCoin converts a field of the raw coin
ApplyToNum ==
  /\ nuPc = "input"
  /\ nuOut' = toNum(nuIn)
  /\ nuPc' = "current"
  /\ UNCHANGED <<mode, tzOffset, page, tsIn, tsOut, tsOut2, tsFmt, tsPc, hoIn, hoOut,
                 hoPc,
                 nuIn, rowVars, recentlyShownCoins, appended, req>>

\* the same call in the earlier version of the endpoint
ApplyToNumEarlier ==
  /\ nuPc = "input"
  /\ nuOut' = toNumEarlier(nuIn)
  /\ nuPc' = "earlier"
  /\ UNCHANGED <<mode, tzOffset, page, tsIn, tsOut, tsOut2, tsFmt, tsPc, hoIn, hoOut,
                 hoPc,
                 nuIn, rowVars, recentlyShownCoins, appended, req>>

NextToNum == ApplyToNum \/ ApplyToNumEarlier

SpecToNum == InitToNum /\ [][NextToNum]_vars

\* C12: for every input value of any type toNum returns (it has no path
\* that throws) and the result is a finite number or undefined, never NaN
\* and never an infinite value.
C12_FiniteOrUndefined ==
  nuPc = "current" => (nuOut = Undefined \/ IsFinite(nuOut))

\* the string with its commas and underscores removed
WithoutSeparators(str) == RemoveChar(RemoveChar(str, ","), "_")

\* C13: in the current and in the earlier version, toNum of a string that
\* is a run of digits once its commas and underscores are removed is the
\* number those digits denote: "1,234" and "1_234" both give 1234.
C13_SeparatorsStripped ==
  (nuPc \in {"current", "earlier"} /\ nuIn.t = "string"
     /\ IsDigits(WithoutSeparators(nuIn.s)))
    => nuOut = NumV(0, DigitsValue(WithoutSeparators(nuIn.s)))

(***************************************************************************)
(* The environment of GET: what the upstream SDK calls and Math.random     *)
(* may return.                                                             *)
(***************************************************************************)
MaxSmallPool == 2
MediumPool == 12
LargePool == 61
RandomDenom == 2
TapeLen == 1
MaxRequests == 2
ConcurrentCoins == 2

CoinEdge(a) == [hasNode |-> TRUE, address |-> a]

ExploreEdges == {NoNode, CoinEdge(NoAddress), CoinEdge(1), CoinEdge(2)}

RangePool(n) == [i \in 1..n |-> CoinEdge(i)]

\* the edge lists getCoinsTopVolume24h may resolve with; the empty list also
\* stands for a response without data, exploreList or edges
ExplorePools(m) ==
  IF m = "single"
    THEN UNION { [1..k -> ExploreEdges] : k \in 0..MaxSmallPool }
           \cup {RangePool(MediumPool), RangePool(LargePool)}
    ELSE {<<>>} \cup { <<CoinEdge(a)>> : a \in 1..ConcurrentCoins }

Draws == { [num |-> k, den |-> RandomDenom] : k \in 0..(RandomDenom - 1) }

Tapes == [1..TapeLen -> Draws]

\* values a rejected SDK call throws
ThrownValues(m) ==
  IF m = "single" THEN {ErrorOf("fetch failed"), NonError}
  ELSE {ErrorOf("fetch failed")}

\* whether the getCoin response carries data.zora20Token
MetaOutcomes(m) == IF m = "single" THEN BOOLEAN ELSE {TRUE}

TypeErrorNoChosen ==
  ErrorOf("Cannot read properties of undefined (reading 'address')")

TypeErrorNoMap == ErrorOf("edges.slice(...).map is not a function")

Seconds2024 == NumV(20000, 3600)

BuySwap ==
  SwapNode(StrV("BUY"), IntStr(5), Undefined, Seconds2024, Undefined,
           Undefined, Undefined, StrV("0x1234567890abcdef"), Undefined,
           Undefined, Undefined, Undefined, Undefined)

SellSwap ==
  SwapNode(StrV("SELL"), Undefined, IntStr(3), Undefined,
           IsoV(2025, 6, 15, 3600), Undefined, Undefined, Undefined,
           StrV("0xabc"), Undefined, Undefined, Undefined, Undefined)

SwapPayload == SwapResp(<<Edge(BuySwap), NoNode, Edge(SellSwap)>>, Undefined)

CommentPayload ==
  Resp(<<Edge(CommentNode(StrV("carol"), Undefined, Undefined,
                          StrV(" gm   frens "), Undefined, Seconds2024,
                          Undefined, Undefined)),
         Edge(CommentNode(Undefined, Undefined, StrV("0xd00d"),
                          StrV("  "), Undefined, Undefined, Undefined,
                          Undefined))>>)

HolderEdge(v) ==
  Edge(HolderNode(Undefined, Undefined, StrV("0xf6"), Undefined, IntStr(v),
                  Undefined))

HolderPayload == Resp(<<HolderEdge(7), HolderEdge(2), HolderEdge(1)>>)

SwapSettled ==
  {Rejected, Fulfilled(RespNoEdges), Fulfilled(SwapPayload),
   Fulfilled(SwapResp(<<Edge(BuySwap)>>, Undefined)),
   Fulfilled(SwapResp(<<Edge(SellSwap), NoNode>>, Undefined)),
   Fulfilled(SwapResp(<<NoNode>>, Undefined)), Fulfilled(MalformedResp)}

CommentSettled == {Rejected, Fulfilled(CommentPayload)}

HolderSettled ==
  {Rejected, Fulfilled(HolderPayload), Fulfilled(Resp(<<HolderEdge(7)>>)),
   Fulfilled(MalformedResp)}

\* the settled results <<swaps, comments, holders>> of one Promise.allSettled
DetailOutcomes(m) ==
  IF m = "single"
    THEN SwapSettled \X CommentSettled \X HolderSettled
    ELSE {<<Rejected, Rejected, Rejected>>,
          <<Fulfilled(SwapPayload), Rejected, Rejected>>}

\* n entries cycling over the addresses 1..m
CacheOf(n, m) == [i \in 1..n |-> ((i - 1) % m) + 1]

\* states of recentlyShownCoins a behaviour starts from, each without a
\* repeated address: every such list of at most MAX_RECENT_CACHE addresses
\* is what a run of earlier requests leaves (each request choosing the only
\* coin of a one-coin pool)
InitCaches(m) ==
  IF m = "single"
    THEN {CacheOf(0, 1), CacheOf(1, 1), CacheOf(2, 2),
          CacheOf(MAX_RECENT_CACHE, MAX_RECENT_CACHE)}
    ELSE {CacheOf(MAX_RECENT_CACHE - 1, MAX_RECENT_CACHE - 1)}

\* the requests of a behaviour: one, or MaxRequests that may overlap
RequestsOf(m) == IF m = "single" THEN 1..1 ELSE 1..MaxRequests

\* recentlyShownCoins as it was before request r, when r is the only
\* request of the behaviour: Init sets appended to the list, and its only
\* later entries are the addresses r pushed
CacheBefore(r) == SubSeq(appended, 1, Len(appended) - r.pushes)

\* which of the three results <<swaps, comments, holders>> of one
\* Promise.allSettled were rejected, which carried a non-empty edges value,
\* and which carried one that is not an array
ProbeSummary(o) ==
  [rejected  |-> { k \in 1..3 : o[k].status = "rejected" },
   nonEmpty  |-> { k \in 1..3 : ActivityLength(o[k]) > 0 },
   malformed |-> { k \in 1..3 : o[k].status = "fulfilled"
                                   /\ o[k].value = MalformedResp }]

NoProbe == [rejected |-> {}, nonEmpty |-> {}, malformed |-> {}]

\* the locals of one GET call; pc is the await it is suspended at
IdleRequest ==
  [pc |-> "idle",
   candidates |-> <<>>, finalCandidates |-> <<>>, freshCoins |-> 0,
   maxAttempts |-> 0, i |-> 0,
   chosen |-> NoCoin,
   swapsData |-> <<>>, commentsData |-> <<>>, holdersData |-> <<>>,
   holdersRejected |-> FALSE,
   response |-> NoResponse,
   \* history, not read by GET
   shownAtFilter |-> {}, path |-> "none", probed |-> <<>>, fetchRounds |-> 0,
   poolLen |-> 0 - 1, lastProbe |-> NoProbe,
   pushes |-> 0, getCoinCalls |-> 0]

InitGet(m) ==
  /\ mode = m
  /\ tzOffset = 0
  /\ tsIn = Null /\ tsOut = Null /\ tsOut2 = Null /\ tsFmt = Null /\ page = NoPage /\ tsPc = "off"
  /\ hoIn = <<>> /\ hoOut = <<>> /\ hoPc = "off"
  /\ nuIn = Null /\ nuOut = Null /\ nuPc = "off"
  /\ rowIn = Null /\ rowOut = <<>> /\ rowPc = "off"
  /\ recentlyShownCoins \in InitCaches(m)
  /\ appended = recentlyShownCoins
  /\ req = [s \in RequestsOf(m) |-> IdleRequest]

Init == InitGet("single")

InitConcurrent == InitGet("concurrent")

Elements(list) == { list[i] : i \in 1..Len(list) }

\* at least one of the three fetches returned a non-empty edge list
ReturnedNonEmpty(o) ==
  \E k \in 1..3 :
    /\ o[k].status = "fulfilled"
    /\ o[k].value.hasEdges
    /\ (o[k].value = MalformedResp \/ o[k].value.edges # <<>>)

Done(r, response) == [r EXCEPT !.pc = "done", !.response = response]

\* route.ts:448-452 (and 468-472, 484-488): process the three results; the
\* call awaits the promise of processHolders
AfterFetch(r, o, tz) ==
  LET sw == ValueOrNull(o[1])
      cm == ValueOrNull(o[2])
      ho == ValueOrNull(o[3])
  IN IF ProcessThrows(sw) \/ ProcessThrows(cm)
       THEN Done(r, Catch(TypeErrorNoMap))
     ELSE [r EXCEPT
             !.pc = "holders",
             !.swapsData = processSwaps(sw, tz),
             !.commentsData = processComments(cm, tz),
             !.holdersRejected = ProcessThrows(ho),
             !.holdersData = IF ProcessThrows(ho) THEN <<>>
                             ELSE processHolders(ho)]

\* request s arrives: GET calls getCoinsTopVolume24h and awaits it
Start(s) ==
  /\ req[s].pc = "idle"
  /\ req' = [req EXCEPT ![s].pc = "explore"]
  /\ UNCHANGED <<mode, tzOffset, page, numVars, rowVars, tsFmt, tsIn, tsOut, tsOut2, tsPc, hoIn, hoOut, hoPc,
                 recentlyShownCoins, appended>>

\* route.ts:395 rejects: the catch block answers
ExploreThrows(s) ==
  /\ req[s].pc = "explore"
  /\ \E e \in ThrownValues(mode) :
       req' = [req EXCEPT ![s] = Done(@, Catch(e))]
  /\ UNCHANGED <<mode, tzOffset, page, numVars, rowVars, tsFmt, tsIn, tsOut, tsOut2, tsPc, hoIn, hoOut, hoPc,
                 recentlyShownCoins, appended>>

NoEdgesNever(rawEdges) == FALSE

\* route.ts:398  !rawEdges.length
NoEdges(rawEdges) == Len(rawEdges) = 0

\* route.ts:396-429, up to the first Promise.allSettled of the loop
AfterExplore(r, rawEdges, tape, recent) ==
  IF NoEdges(rawEdges)
    THEN Done([r EXCEPT !.poolLen = Len(rawEdges)],
              JsonError(StrV("no-coins")))
  ELSE LET candidates      == Candidates(rawEdges, tape)
           freshCandidates == FreshCandidates(candidates, recent)
           finalCandidates == FinalCandidates(freshCandidates, candidates)
           maxAttempts     == MaxAttempts(finalCandidates)
           r1 == [r EXCEPT !.poolLen = Len(rawEdges),
                           !.candidates = candidates,
                           !.finalCandidates = finalCandidates,
                           !.freshCoins = Len(freshCandidates),
                           !.maxAttempts = maxAttempts,
                           !.shownAtFilter = Elements(recent)]
       IN IF maxAttempts = 0
            \* no loop, no random fallback; finalCandidates[0] ||
            \* candidates[0] is undefined and chosen.address throws
            THEN Done(r1, Catch(TypeErrorNoChosen))
            ELSE [r1 EXCEPT !.pc = "probe", !.i = 0, !.fetchRounds = 1]

ExploreReturns(s) ==
  /\ req[s].pc = "explore"
  /\ \E rawEdges \in ExplorePools(mode), tape \in Tapes :
       req' = [req EXCEPT ![s] =
                 AfterExplore(@, rawEdges, tape, recentlyShownCoins)]
  /\ UNCHANGED <<mode, tzOffset, page, numVars, rowVars, tsFmt, tsIn, tsOut, tsOut2, tsPc, hoIn, hoOut, hoPc,
                 recentlyShownCoins, appended>>

\* route.ts:431-489 after the allSettled of iteration i has settled with o
AfterProbe(r, o, draw, tz) ==
  LET c  == r.finalCandidates[r.i + 1]
      r1 == [r EXCEPT !.probed = Append(@, ReturnedNonEmpty(o)),
                      !.lastProbe = ProbeSummary(o)]
  IN IF HasActivity(o[1], o[2], o[3])
       THEN AfterFetch([r1 EXCEPT !.chosen = c, !.path = "loop"], o, tz)
     ELSE IF r.i + 1 < r.maxAttempts
       THEN [r1 EXCEPT !.i = r.i + 1, !.fetchRounds = @ + 1]
     ELSE IF Len(r.finalCandidates) > r.maxAttempts
       THEN [r1 EXCEPT
               !.i = r.i + 1,
               !.chosen = r.finalCandidates[
                  RandomIndex(draw, Len(r.finalCandidates), r.maxAttempts) + 1],
               !.path = "random",
               !.pc = "fallbackRandom",
               !.fetchRounds = @ + 1]
     ELSE [r1 EXCEPT
             !.i = r.i + 1,
             !.chosen = r.finalCandidates[1],
             !.path = "first",
             !.pc = "fallbackFirst",
             !.fetchRounds = @ + 1]

ProbeSettles(s) ==
  /\ req[s].pc = "probe"
  /\ \E o \in DetailOutcomes(mode), draw \in Draws :
       req' = [req EXCEPT ![s] = AfterProbe(@, o, draw, tzOffset)]
  /\ UNCHANGED <<mode, tzOffset, page, numVars, rowVars, tsFmt, tsIn, tsOut, tsOut2, tsPc, hoIn, hoOut, hoPc,
                 recentlyShownCoins, appended>>

\* route.ts:462-472 and 478-488: the fetch for the fallback coin settles
FallbackSettles(s) ==
  /\ req[s].pc \in {"fallbackRandom", "fallbackFirst"}
  /\ \E o \in DetailOutcomes(mode) :
       req' = [req EXCEPT ![s] = AfterFetch(@, o, tzOffset)]
  /\ UNCHANGED <<mode, tzOffset, page, numVars, rowVars, tsFmt, tsIn, tsOut, tsOut2, tsPc, hoIn, hoOut, hoPc,
                 recentlyShownCoins, appended>>

\* the awaited processHolders promise settles: route.ts:491-498, up to the
\* await of getCoin, or the catch block when the promise rejected
HoldersResolved(s) ==
  /\ req[s].pc = "holders"
  /\ IF req[s].holdersRejected
       THEN /\ req' = [req EXCEPT ![s] = Done(@, Catch(TypeErrorNoMap))]
            /\ UNCHANGED <<recentlyShownCoins, appended>>
       ELSE /\ recentlyShownCoins' =
                 PushRecent(recentlyShownCoins, req[s].chosen)
            /\ appended' = Append(appended, req[s].chosen)
            /\ req' = [req EXCEPT ![s].pc = "getCoin",
                                  ![s].pushes = @ + 1,
                                  ![s].getCoinCalls = @ + 1]
  /\ UNCHANGED <<mode, tzOffset, page, numVars, rowVars, tsFmt, tsIn, tsOut, tsOut2, tsPc, hoIn, hoOut, hoPc>>

\* route.ts:498 rejects
GetCoinThrows(s) ==
  /\ req[s].pc = "getCoin"
  /\ \E e \in ThrownValues(mode) :
       req' = [req EXCEPT ![s] = Done(@, Catch(e))]
  /\ UNCHANGED <<mode, tzOffset, page, numVars, rowVars, tsFmt, tsIn, tsOut, tsOut2, tsPc, hoIn, hoOut, hoPc,
                 recentlyShownCoins, appended>>

\* route.ts:499-526; hasToken is whether meta.data.zora20Token is present
GetCoinReturns(s) ==
  /\ req[s].pc = "getCoin"
  /\ \E hasToken \in MetaOutcomes(mode) :
       LET r == req[s]
           coin == [address |-> r.chosen, fromMeta |-> hasToken]
       IN req' = [req EXCEPT ![s] =
            Done(r, JsonOk(coin,
                   [swaps |-> r.swapsData, comments |-> r.commentsData,
                    holders |-> r.holdersData],
                   Stats(r.swapsData, r.commentsData, r.holdersData,
                         Len(r.candidates), r.freshCoins,
                         Len(recentlyShownCoins))))]
  /\ UNCHANGED <<mode, tzOffset, page, numVars, rowVars, tsFmt, tsIn, tsOut, tsOut2, tsPc, hoIn, hoOut, hoPc,
                 recentlyShownCoins, appended>>

Next ==
  \E s \in DOMAIN req :
    \/ Start(s)
    \/ ExploreThrows(s)
    \/ ExploreReturns(s)
    \/ ProbeSettles(s)
    \/ FallbackSettles(s)
    \/ HoldersResolved(s)
    \/ GetCoinThrows(s)
    \/ GetCoinReturns(s)

Spec == Init /\ [][Next]_vars

SpecConcurrent == InitConcurrent /\ [][Next]_vars


(***************************************************************************)
(* Properties of GET                                                       *)
(***************************************************************************)
\* C1: GET never propagates an exception: whatever the upstream calls do,
\* a finished request has answered with JSON that is ok:true with a coin, or
\* ok:false with an error string and status 500.
C1_AlwaysJsonResponse ==
  \A s \in DOMAIN req :
    req[s].pc = "done" =>
      LET res == req[s].response
      IN /\ res.kind = "json"
         /\ \/ res.ok /\ res.coin.address # NoAddress
            \/ ~res.ok /\ res.status = 500 /\ res.error.t = "string"

\* C1 witness: every candidate node lacked an address, reading the address
\* of the undefined fallback coin threw, and the request answered ok:false
C1_Witness ==
  \E s \in DOMAIN req :
    /\ req[s].pc = "done"
    /\ req[s].candidates = <<>> /\ req[s].shownAtFilter # {}
    /\ ~req[s].response.ok
    /\ req[s].response.error = TypeErrorNoChosen.message

LastN(list, n) ==
  IF Len(list) <= n THEN list ELSE SubSeq(list, Len(list) - n + 1, Len(list))

\* C2: in every state between the steps of sequential or interleaved
\* requests recentlyShownCoins holds at most 50 entries and is exactly the
\* most recently appended addresses in append order.
C2_BoundedFifo ==
  /\ Len(recentlyShownCoins) <= MAX_RECENT_CACHE
  /\ recentlyShownCoins = LastN(appended, MAX_RECENT_CACHE)

\* C2 witness: a 51st address was appended by a request that overlaps
\* another one (both have pushed, neither has finished), and the oldest
\* entry is the one that left
C2_Witness ==
  /\ Len(appended) = MAX_RECENT_CACHE + 1
  /\ Len(recentlyShownCoins) = MAX_RECENT_CACHE
  /\ recentlyShownCoins[1] = appended[2]
  /\ recentlyShownCoins[1] # appended[1]
  /\ \E s, t \in DOMAIN req :
       s # t /\ req[s].pc = "getCoin" /\ req[t].pc = "getCoin"

\* C3: the coin chosen in the activity loop is the first candidate, in list
\* order, with a non-empty result: every candidate before it was probed and
\* found empty, it is the last one probed, and a probed candidate with a
\* non-empty result is always the one chosen.
C3_FirstActiveChosen ==
  \A s \in DOMAIN req :
    LET r == req[s]
        k == Len(r.probed)
    IN /\ r.path = "loop" =>
            /\ k >= 1 /\ r.probed[k]
            /\ \A j \in 1..(k - 1) : ~r.probed[j]
            /\ r.chosen = r.finalCandidates[k]
            /\ r.fetchRounds = k
       /\ (\E j \in 1..k : r.probed[j]) => r.path = "loop"

\* C3 witness: the third candidate was accepted after two empty ones, with
\* candidates left unprobed behind it
C3_Witness ==
  \E s \in DOMAIN req :
    /\ req[s].pc = "done" /\ req[s].response.ok
    /\ req[s].path = "loop"
    /\ Len(req[s].probed) = 3
    /\ Len(req[s].finalCandidates) > 3

\* C4 (as claimed): whenever no probed candidate has a non-empty result the
\* chosen coin is the first candidate (index 0), for every list size.
C4_FallsBackToFirst ==
  \A s \in DOMAIN req :
    (req[s].chosen # NoCoin /\ req[s].path # "loop")
      => req[s].chosen = req[s].finalCandidates[1]

\* C4 (amended): when no probed candidate has a non-empty result, the
\* fallback is the first candidate only for a list of at most 20 entries;
\* for a longer list it is one of the candidates at index 20 or later; for
\* an empty list no coin is chosen and the answer is ok:false.  An ok:true
\* answer carries the fallback coin.
C4_FallbackRule ==
  \A s \in DOMAIN req :
    LET r == req[s]
        n == Len(r.finalCandidates)
    IN /\ (r.chosen # NoCoin /\ r.path # "loop") =>
            /\ \A j \in 1..Len(r.probed) : ~r.probed[j]
            /\ Len(r.probed) = Min(AttemptsCap, n)
            /\ n <= AttemptsCap => r.chosen = r.finalCandidates[1]
            /\ n > AttemptsCap =>
                 \E k \in (AttemptsCap + 1)..n : r.chosen = r.finalCandidates[k]
            /\ (r.pc = "done" /\ r.response.ok)
                 => r.response.coin.address = r.chosen
       /\ (r.pc = "done" /\ r.chosen = NoCoin) => ~r.response.ok

\* C4 witness: twenty candidates were probed and found empty and a later
\* candidate, not the first, was returned
C4_Witness ==
  \E s \in DOMAIN req :
    /\ req[s].pc = "done" /\ req[s].response.ok
    /\ req[s].path = "random"
    /\ Len(req[s].probed) = AttemptsCap
    /\ req[s].response.coin.address # req[s].finalCandidates[1]

\* the candidates that were absent from recentlyShownCoins at filter time
FreshAtFilter(r) ==
  { i \in 1..Len(r.candidates) : r.candidates[i] \notin r.shownAtFilter }

\* C5: when more than 10 sampled candidates are absent from
\* recentlyShownCoins at filter time, the chosen coin is one of them; the
\* list GET walks contains a recently shown coin only when 10 or fewer
\* candidates are fresh.
C5_FreshPreferred ==
  \A s \in DOMAIN req :
    LET r == req[s]
        fresh == Cardinality(FreshAtFilter(r))
    IN /\ (fresh > FreshThreshold /\ r.chosen # NoCoin) =>
            \E i \in FreshAtFilter(r) : r.candidates[i] = r.chosen
       /\ (\E i \in 1..Len(r.finalCandidates) :
             r.finalCandidates[i] \in r.shownAtFilter)
            => fresh <= FreshThreshold

\* C5 witness: eleven or more candidates were fresh, at least one sampled
\* candidate had been shown recently, and a coin was returned
C5_Witness ==
  \E s \in DOMAIN req :
    /\ req[s].pc = "done" /\ req[s].response.ok
    /\ Cardinality(FreshAtFilter(req[s])) > FreshThreshold
    /\ Cardinality(FreshAtFilter(req[s])) < Len(req[s].candidates)

\* the request is suspended at, or has finished after, a per-coin fetch of
\* the loop or of a fallback
PastAcceptance(r) == r.pc \in {"holders", "getCoin", "done"}

\* C14: of the three fetches made for a candidate, one that rejects counts
\* as an empty result and does not end the spin: the candidate is accepted
\* exactly when some fetch returned a non-empty edge list, whatever the
\* others did, and the rows of a rejected fetch are empty; a candidate
\* whose three fetches all reject is not accepted, and the loop goes on to
\* the next candidate while attempts remain.
C14_BestEffortFetches ==
  \A s \in DOMAIN req :
    LET r  == req[s]
        lp == r.lastProbe
        k  == Len(r.probed)
    IN k >= 1 =>
         /\ lp.nonEmpty # {} =>
              /\ r.path = "loop" /\ r.chosen = r.finalCandidates[k]
              /\ PastAcceptance(r)
              /\ (r.pc = "done" /\ ~r.response.ok)
                   => (lp.malformed # {} \/ r.getCoinCalls = 1)
              /\ (r.pc # "done" \/ r.response.ok) =>
                   /\ 1 \in lp.rejected => r.swapsData = <<>>
                   /\ 2 \in lp.rejected => r.commentsData = <<>>
                   /\ 3 \in lp.rejected => r.holdersData = <<>>
         /\ lp.nonEmpty = {} =>
              /\ r.path # "loop"
              /\ r.pc = "probe" => (r.i = k /\ k < r.maxAttempts)
              /\ r.pc # "probe" => k = r.maxAttempts

\* C14 witness: a candidate whose three fetches all rejected was passed
\* over, and a later candidate was accepted and answered with ok:true on
\* one non-empty result while its two other fetches rejected
C14_Witness ==
  \E s \in DOMAIN req :
    /\ req[s].pc = "done" /\ req[s].response.ok
    /\ req[s].path = "loop"
    /\ Len(req[s].probed) >= 2
    /\ Cardinality(req[s].lastProbe.rejected) = 2
    /\ Cardinality(req[s].lastProbe.nonEmpty) = 1

\* C15: when the explore call returns no edges, GET answers
\* {ok:false, error:"no-coins"} with status 500, makes no per-coin fetch
\* and no getCoin call, and leaves recentlyShownCoins as it was.
C15_NoCoins ==
  \A s \in DOMAIN req :
    LET r == req[s]
    IN r.poolLen = 0 =>
         /\ r.pc = "done"
         /\ r.response = JsonError(StrV("no-coins"))
         /\ r.response.status = 500 /\ ~r.response.ok
         /\ r.fetchRounds = 0 /\ r.probed = <<>>
         /\ r.getCoinCalls = 0
         /\ r.pushes = 0
         /\ recentlyShownCoins = CacheBefore(r)

\* C15 witness: a request that started with a non-empty recentlyShownCoins
\* received an empty edge list and has answered
C15_Witness ==
  \E s \in DOMAIN req :
    /\ req[s].poolLen = 0
    /\ req[s].pc = "done"
    /\ CacheBefore(req[s]) # <<>>
    /\ req[s].response.error = StrV("no-coins")

\* the upstream detail fetches a request has made: three per fetch round
DetailFetches(r) == 3 * r.fetchRounds

\* C16: one request probes at most 20 candidates, even with 60 available,
\* and after the loop fetches details for at most one fallback coin, so it
\* makes at most 3 * 20 + 3 detail fetches.
C16_BoundedProbes ==
  \A s \in DOMAIN req :
    LET r == req[s]
    IN /\ Len(r.probed) <= AttemptsCap
       /\ Len(r.finalCandidates) <= SampleSize
       /\ r.fetchRounds <= Len(r.probed) + 1
       /\ r.path = "loop" => r.fetchRounds = Len(r.probed)
       /\ DetailFetches(r) <= 3 * AttemptsCap + 3

\* C16 witness: a request with 60 candidates probed 20 of them, fetched a
\* fallback coin as well, and has answered
C16_Witness ==
  \E s \in DOMAIN req :
    /\ req[s].pc = "done"
    /\ Len(req[s].finalCandidates) = SampleSize
    /\ Len(req[s].probed) = AttemptsCap
    /\ DetailFetches(req[s]) = 3 * AttemptsCap + 3

\* C17: whenever a request ends with an ok:false response,
\* recentlyShownCoins is the list it was when that request started.
C17_ErrorLeavesCacheUnchanged ==
  \A s \in DOMAIN req :
    (req[s].pc = "done" /\ ~req[s].response.ok)
      => recentlyShownCoins = CacheBefore(req[s])

\* no address occurs twice in the list
NoDuplicates(list) ==
  \A i, j \in 1..Len(list) : i # j => list[i] # list[j]

C19_AcceptedHasActivity ==
  \A s \in DOMAIN req :
    (req[s].pc = "done" /\ req[s].response.ok /\ req[s].path = "loop")
      => req[s].response.stats.totalActivity >= 1

\* the rows of the list whose side is the given one
RowsOfSide(swaps, side) == { i \in 1..Len(swaps) : swaps[i].side = side }

\* C20: in every ok:true response the stats agree with the details:
\* buyCount and sellCount count the BUY and the SELL rows and add up to the
\* number of swap rows, totalActivity is the number of swap, comment and
\* holder rows, and sentiment is 'bullish' exactly when buyCount > sellCount,
\* 'bearish' exactly when buyCount < sellCount, 'neutral' exactly when equal.
C20_StatsMatchDetails ==
  \A s \in DOMAIN req :
    (req[s].pc = "done" /\ req[s].response.ok) =>
      LET st == req[s].response.stats
          dt == req[s].response.details
      IN /\ st.buyCount = Cardinality(RowsOfSide(dt.swaps, "BUY"))
         /\ st.sellCount = Cardinality(RowsOfSide(dt.swaps, "SELL"))
         /\ st.buyCount + st.sellCount = Len(dt.swaps)
         /\ st.totalActivity =
              Len(dt.swaps) + Len(dt.comments) + Len(dt.holders)
         /\ st.sentiment \in {"bullish", "bearish", "neutral"}
         /\ st.sentiment = "bullish" <=> st.buyCount > st.sellCount
         /\ st.sentiment = "bearish" <=> st.buyCount < st.sellCount
         /\ st.sentiment = "neutral" <=> st.buyCount = st.sellCount

\* C20 witness: an ok:true response with swap, comment and holder rows in
\* which the sells outnumber the buys
C20_Witness ==
  \E s \in DOMAIN req :
    /\ req[s].pc = "done" /\ req[s].response.ok
    /\ req[s].response.stats.sentiment = "bearish"
    /\ req[s].response.stats.sellCount > 0
    /\ req[s].response.details.comments # <<>>
    /\ req[s].response.details.holders # <<>>

\* the holders of all the edges of a response that have a node and a
\* positive balance, in input order
PositiveHolders(resp) ==
  LET edges  == EdgesOf(resp)
      mapped == [i \in 1..Len(edges) |-> HolderOf(edges[i])]
  IN SelectSeq(mapped, LAMBDA h : h.hasNode /\ h.balance.u > 0)

\* C21: when the response supplies at least 11 holder edges with a positive
\* balance, processHolders returns exactly 10 rows: the second to eleventh
\* positive-balance holders in input order, ranked 1..10, with isTopHolder
\* true for rank 1 only.
C21_NextTenHolders ==
  (hoPc = "done" /\ Len(PositiveHolders(hoIn)) >= 11) =>
    /\ Len(hoOut) = 10
    /\ \A k \in 1..10 :
         /\ hoOut[k].holder = PositiveHolders(hoIn)[k + 1].holder
         /\ hoOut[k].balance = PositiveHolders(hoIn)[k + 1].balance
         /\ hoOut[k].rank = k
         /\ hoOut[k].isTopHolder = (k = 1)

\* C22: every date formatTimestamp returns other than the placeholder shows
\* a year between 2020 and 2030 inclusive, whatever the timestamp and the
\* server's time-zone offset.
C22_DisplayedYearInWindow ==
  (tsPc = "formatted" /\ tsFmt.date # Dash) =>
    (tsFmt.date.year >= 2020 /\ tsFmt.date.year <= 2030)

(***************************************************************************)
(* The client page, page.tsx: Home's loading state and spin()              *)
(*                                                                         *)
(* page.loading is the value of the loading state in the last committed    *)
(* render: the Spin button's disabled attribute (page.tsx:924) and the     *)
(* value the spin closure of that render reads (page.tsx:493); the effect  *)
(* of page.tsx:370-389 has no dependency list and registers the touch      *)
(* handler of every render.  page.queue holds the setLoading calls React   *)
(* has not rendered yet.  page.calls has one entry per spin() that got     *)
(* past the guard, with the await it is suspended at.                      *)
(***************************************************************************)
MaxSpins == 3

SpinOutcomes == {"ok", "failed", "exception"}

\* page.tsx:493-517: the synchronous part of spin() up to await fetch, run
\* on the closure of the last render
spin(p) ==
  IF p.loading THEN [p EXCEPT !.lastCall = "ignored"]
  ELSE [p EXCEPT !.queue = Append(@, TRUE),
                 !.calls = Append(@, [pc |-> "fetch", outcome |-> "none"]),
                 !.lastCall = "sent"]

spinFinallyOnSuccessOnly(outcome, queue) ==
  IF outcome = "ok" THEN Append(queue, FALSE) ELSE queue

\* page.tsx:611-613  finally { setLoading(false) }, run after the early
\* return of 520-525, after the end of the try block and after the catch
spinFinally(outcome, queue) == Append(queue, FALSE)

\* spin c runs from its await to the end of the function with the outcome
Finish(p, c, outcome) ==
  [p EXCEPT !.calls[c] = [pc |-> "done", outcome |-> outcome],
            !.queue = spinFinally(outcome, @)]

InitPage ==
  /\ mode = "page"
  /\ tzOffset = 0
  /\ tsIn = Null /\ tsOut = Null /\ tsOut2 = Null /\ tsFmt = Null /\ tsPc = "off"
  /\ hoIn = <<>> /\ hoOut = <<>> /\ hoPc = "off"
  /\ nuIn = Null /\ nuOut = Null /\ nuPc = "off"
  /\ rowIn = Null /\ rowOut = <<>> /\ rowPc = "off"
  /\ recentlyShownCoins = <<>> /\ appended = <<>>
  /\ req = NoRequests
  /\ page = NoPage

otherVars ==
  <<mode, tzOffset, numVars, rowVars, tsIn, tsOut, tsOut2, tsFmt, tsPc, hoIn,
    hoOut, hoPc, recentlyShownCoins, appended, req>>

\* page.tsx:922-924  onClick={spin} on a button that is not disabled
ClickSpin ==
  /\ mode = "page"
  /\ ~page.loading
  /\ Len(page.calls) < MaxSpins
  /\ page' = spin(page)
  /\ UNCHANGED otherVars

\* page.tsx:376-381  a touch that ends more than 120 px above its start
SwipeUp ==
  /\ mode = "page"
  /\ page.loading \/ Len(page.calls) < MaxSpins
  /\ page' = spin(page)
  /\ UNCHANGED otherVars

\* React renders Home with the queued state and commits: the button and
\* the touch handler now hold the spin closure of this render
Render ==
  /\ mode = "page"
  /\ page.queue # <<>>
  /\ page' = [page EXCEPT !.loading = page.queue[Len(page.queue)],
                          !.queue = <<>>]
  /\ UNCHANGED otherVars

\* page.tsx:517  fetch rejects: catch (605-610), then finally
FetchRejects(c) ==
  /\ page.calls[c].pc = "fetch"
  /\ page' = Finish(page, c, "exception")
  /\ UNCHANGED otherVars

\* page.tsx:517-518  fetch resolves and spin awaits response.json()
FetchResolves(c) ==
  /\ page.calls[c].pc = "fetch"
  /\ page' = [page EXCEPT !.calls[c].pc = "json"]
  /\ UNCHANGED otherVars

\* page.tsx:518-604  response.json() settles: it rejects, or the payload is
\* ok:false or has no coin (520-525), or the entry is shown
JsonSettles(c, outcome) ==
  /\ page.calls[c].pc = "json"
  /\ page' = Finish(page, c, outcome)
  /\ UNCHANGED otherVars

Settles ==
  \E c \in DOMAIN page.calls :
    \/ FetchRejects(c)
    \/ FetchResolves(c)
    \/ \E outcome \in SpinOutcomes : JsonSettles(c, outcome)

NextPage == ClickSpin \/ SwipeUp \/ Render \/ Settles

SpecPage == InitPage /\ [][NextPage]_vars

\* every fetch and every response.json() settles, and React renders a
\* queued state update
SpecPageLive == SpecPage /\ WF_vars(Settles) /\ WF_vars(Render)

\* the spins that have sent their request and have not finished
Unfinished == { c \in DOMAIN page.calls : page.calls[c].pc # "done" }

C24_LoadingEventuallyCleared == (page.loading = TRUE) ~> (page.loading = FALSE)

\* C24 witness: spins have ended in each of the three ways, and loading,
\* which each of them set, is false again with no update left to render
C24_Witness ==
  /\ \A o \in SpinOutcomes : \E c \in DOMAIN page.calls : page.calls[c].outcome = o
  /\ page.queue = <<>>
  /\ page.loading = FALSE


====
